---- MODULE Spec2Model ----
(***************************************************************************)
(* Model of the collectibles pallet (src/lib.rs): a registry of uniquely   *)
(* identified collectibles with transferable ownership and an optional     *)
(* per-item listing price.                                                 *)
(*                                                                         *)
(* Storage is the three items of the pallet (CollectibleMap,               *)
(* CollectiblesCount, OwnerOfCollectibles).  Every function of the pallet  *)
(* is an operator over a context [st, fx]: the storage as it stands and    *)
(* the effects performed so far, in order (storage writes, calls of the    *)
(* Currency collaborator, deposited events).  A function returns           *)
(* [err, st, fx]; on an error it returns the storage as it stands at the   *)
(* return, so a write placed before a failing check would show.            *)
(***************************************************************************)
EXTENDS Integers, Sequences, FiniteSets, TLC

\* ------------------------------------------------------------------ bounds
NumAccounts == 3        \* accounts 1..NumAccounts
MaxPrice == 1           \* balances 0..MaxPrice
MaximumOwned == 2       \* Config::MaximumOwned, a runtime parameter
MaxRandom == 2          \* values of the randomness source 0..MaxRandom
OverflowHeadroom == 2   \* SpecOverflow starts this far below u64::MAX

\* ------------------------------------------------------------ value spaces
None == <<>>
Some(x) == <<x>>
is_some(o) == o # None
unwrap(o) == o[1]

Accounts == 1..NumAccounts
\* an origin is a signed account, or 0: an origin that is not signed
Origins == 0..NumAccounts
Balances == 0..MaxPrice
Randoms == 0..MaxRandom
\* frame_system::extrinsic_index() is an Option<u32>
ExtrinsicIndexes == {None, Some(0)}
BlockNumbers == {1}

\* a u64 is four 16-bit limbs, the most significant first, so that the whole
\* range 0..2^64 - 1 is there and no sequence of calls of the model gets
\* from zero to the maximum
LimbBase == 2^16
u64(n) == <<0, 0, 0, n>>
u64_MAX == <<LimbBase - 1, LimbBase - 1, LimbBase - 1, LimbBase - 1>>

\* ---------------------------------------------------------------- storage
VARIABLES
    CollectibleMap,       \* unique_id -> Collectible, partial
    CollectiblesCount,    \* u64, ValueQuery
    OwnerOfCollectibles,  \* account -> BoundedVec of unique_id, ValueQuery
    prev,                 \* the storage before the last dispatched call
    last,                 \* the last dispatched call and its result
    effects               \* what the last call did, in order

vars == <<CollectibleMap, CollectiblesCount, OwnerOfCollectibles, prev, last, effects>>

St == [map |-> CollectibleMap, count |-> CollectiblesCount, owned |-> OwnerOfCollectibles]

EmptyStorage == [map |-> <<>>, count |-> u64(0), owned |-> [a \in Accounts |-> <<>>]]

\* ---------------------------------------------------------------- effects
Fx(kind, name, from, to, id, amount) ==
    [kind |-> kind, name |-> name, from |-> from, to |-> to, id |-> id, amount |-> amount]

Ctx(st) == [st |-> st, fx |-> <<>>]
Ok(c) == [err |-> "Ok", st |-> c.st, fx |-> c.fx]
Err(c, e) == [err |-> e, st |-> c.st, fx |-> c.fx]

deposit_event(c, name, from, to, id, amount) ==
    [c EXCEPT !.fx = Append(@, Fx("event", name, from, to, id, amount))]

\* StorageMap::insert / remove on CollectibleMap
CollectibleMap_insert(c, id, collectible) ==
    [st |-> [c.st EXCEPT !.map =
                [k \in (DOMAIN c.st.map) \cup {id} |->
                    IF k = id THEN collectible ELSE c.st.map[k]]],
     fx |-> Append(c.fx, Fx("write", "CollectibleMap", None, None, Some(id), None))]

CollectibleMap_remove(c, id) ==
    [st |-> [c.st EXCEPT !.map = [k \in (DOMAIN c.st.map) \ {id} |-> c.st.map[k]]],
     fx |-> Append(c.fx, Fx("write", "CollectibleMap", None, None, Some(id), None))]

\* StorageValue::put on CollectiblesCount
CollectiblesCount_put(c, n) ==
    [st |-> [c.st EXCEPT !.count = n],
     fx |-> Append(c.fx, Fx("write", "CollectiblesCount", None, None, None, Some(n)))]

\* StorageMap::insert on OwnerOfCollectibles
OwnerOfCollectibles_insert(c, who, collection) ==
    [st |-> [c.st EXCEPT !.owned[who] = collection],
     fx |-> Append(c.fx, Fx("write", "OwnerOfCollectibles", None, Some(who), None, None))]

\* ------------------------------------------------------- library functions
\* a + b on u64, limb by limb: the sum modulo 2^64 and the carry out
u64_sum(a, b) ==
    LET s4 == a[4] + b[4]
        s3 == a[3] + b[3] + (s4 \div LimbBase)
        s2 == a[2] + b[2] + (s3 \div LimbBase)
        s1 == a[1] + b[1] + (s2 \div LimbBase)
    IN  [carry |-> s1 \div LimbBase,
         value |-> <<s1 % LimbBase, s2 % LimbBase, s3 % LimbBase, s4 % LimbBase>>]

\* a - b on u64, limb by limb: the difference modulo 2^64 and the borrow out
u64_difference(a, b) ==
    LET d4 == a[4] - b[4]
        b4 == IF d4 < 0 THEN 1 ELSE 0
        d3 == a[3] - b[3] - b4
        b3 == IF d3 < 0 THEN 1 ELSE 0
        d2 == a[2] - b[2] - b3
        b2 == IF d2 < 0 THEN 1 ELSE 0
        d1 == a[1] - b[1] - b2
        b1 == IF d1 < 0 THEN 1 ELSE 0
    IN  [borrow |-> b1,
         value |-> <<d1 + b1 * LimbBase, d2 + b2 * LimbBase,
                     d3 + b3 * LimbBase, d4 + b4 * LimbBase>>]

\* mutant of checked_add: the sum wraps
checked_add_wrapping(a, b) == Some(u64_sum(a, b).value)

\* u64::checked_add
checked_add(a, b) ==
    LET sum == u64_sum(a, b) IN
    IF sum.carry > 0 THEN None ELSE Some(sum.value)

\* the operator - on u64.  Below zero the outcome is the build's: with
\* overflow checks (a debug build) the call panics, None here; without them
\* (a release build) the difference wraps modulo 2^64
u64_sub(a, b, overflow_checks) ==
    LET difference == u64_difference(a, b) IN
    IF difference.borrow > 0 /\ overflow_checks THEN None ELSE Some(difference.value)

\* mutant of try_push: the bound test is off by one
try_push_off_by_one(v, x) == IF Len(v) > MaximumOwned THEN None ELSE Some(Append(v, x))

\* BoundedVec::try_push: None when the vector is full
try_push(v, x) == IF Len(v) >= MaximumOwned THEN None ELSE Some(Append(v, x))

\* Iterator::position: the first index holding x, None when there is none
position(v, x) ==
    IF \E i \in 1..Len(v) : v[i] = x
    THEN Some(CHOOSE i \in 1..Len(v) : v[i] = x /\ \A j \in 1..(i - 1) : v[j] # x)
    ELSE None

\* Vec::swap_remove: the last element takes the place of the removed one
swap_remove(v, i) ==
    [k \in 1..(Len(v) - 1) |-> IF k = i THEN v[Len(v)] ELSE v[k]]

\* ensure_signed
ensure_signed(origin) == IF origin \in Accounts THEN Some(origin) ELSE None

\* StorageMap::try_append on OwnerOfCollectibles: appends in storage, or fails
\* (None) and writes nothing when the bounded vector is full
OwnerOfCollectibles_try_append(c, who, id) ==
    LET pushed == try_push(c.st.owned[who], id) IN
    IF pushed = None THEN None
    ELSE Some(OwnerOfCollectibles_insert(c, who, unwrap(pushed)))

\* Currency::transfer(source, dest, value, KeepAlive): the collaborator's
\* verdict is an input of the call
Currency_transfer(c, source, dest, value, currency_ok) ==
    [c EXCEPT !.fx = Append(@, Fx("pay", IF currency_ok THEN "Ok" ELSE "Err",
                                  Some(source), Some(dest), None, Some(value)))]

\* Hashable::blake2_128 of the encoded payload: a 16-byte value, stood for by
\* a number that is distinct for distinct payloads of the model (the
\* extrinsic index is 0 and the block number 1 throughout, so the number is
\* the random value)
blake2_128(payload) ==
    payload[1] + (MaxRandom + 1) * (payload[2] + (payload[3] - 1))

\* the first byte of a hash
first_byte(hash) == hash % 256

UniqueIds ==
    {blake2_128(<<r, e, b>>) : r \in Randoms, e \in {0}, b \in BlockNumbers}

\* mutant of gen_unique_id: the parity test is inverted
gen_unique_id_inverted(random, extrinsic_index, block_number) ==
    LET unique_payload ==
            <<random,
              IF is_some(extrinsic_index) THEN unwrap(extrinsic_index) ELSE 0,
              block_number>>
        hash == blake2_128(unique_payload)
    IN  IF first_byte(hash) % 2 = 1 THEN <<hash, "Red">> ELSE <<hash, "Yellow">>

\* ------------------------------------------------------------- the pallet
gen_unique_id(random, extrinsic_index, block_number) ==
    LET unique_payload ==
            <<random,
              IF is_some(extrinsic_index) THEN unwrap(extrinsic_index) ELSE 0,
              block_number>>
        hash == blake2_128(unique_payload)
    IN  IF first_byte(hash) % 2 = 0 THEN <<hash, "Red">> ELSE <<hash, "Yellow">>

\* mutant of mint: the new count is not written
mint_keeps_count(c, owner, unique_id, color) ==
    LET collectible ==
            [unique_id |-> unique_id, price |-> None, color |-> color, owner |-> owner]
    IN
    IF unique_id \in DOMAIN c.st.map THEN Err(c, "DuplicateCollectible")
    ELSE
    LET new_count == checked_add(c.st.count, u64(1)) IN
    IF new_count = None THEN Err(c, "BoundsOverflow")
    ELSE
    LET appended == OwnerOfCollectibles_try_append(c, owner, unique_id) IN
    IF appended = None THEN Err(c, "MaximumCollectiblesOwned")
    ELSE
    LET c1 == unwrap(appended)
        c2 == CollectibleMap_insert(c1, unique_id, collectible)
        c4 == deposit_event(c2, "CollectibleCreated", None, Some(owner), Some(unique_id), None)
    IN  Ok(c4)

\* mutant of mint: no duplicate check
mint_no_duplicate_check(c, owner, unique_id, color) ==
    LET collectible ==
            [unique_id |-> unique_id, price |-> None, color |-> color, owner |-> owner]
        new_count == checked_add(c.st.count, u64(1))
    IN
    IF new_count = None THEN Err(c, "BoundsOverflow")
    ELSE
    LET appended == OwnerOfCollectibles_try_append(c, owner, unique_id) IN
    IF appended = None THEN Err(c, "MaximumCollectiblesOwned")
    ELSE
    LET c1 == unwrap(appended)
        c2 == CollectibleMap_insert(c1, unique_id, collectible)
        c3 == CollectiblesCount_put(c2, unwrap(new_count))
        c4 == deposit_event(c3, "CollectibleCreated", None, Some(owner), Some(unique_id), None)
    IN  Ok(c4)

\* mutant of mint: the collection is appended to before the duplicate and
\* overflow checks
mint_appends_first(c, owner, unique_id, color) ==
    LET collectible ==
            [unique_id |-> unique_id, price |-> None, color |-> color, owner |-> owner]
        appended == OwnerOfCollectibles_try_append(c, owner, unique_id)
    IN
    IF appended = None THEN Err(c, "MaximumCollectiblesOwned")
    ELSE
    LET c1 == unwrap(appended) IN
    IF unique_id \in DOMAIN c1.st.map THEN Err(c1, "DuplicateCollectible")
    ELSE
    LET new_count == checked_add(c1.st.count, u64(1)) IN
    IF new_count = None THEN Err(c1, "BoundsOverflow")
    ELSE
    LET c2 == CollectibleMap_insert(c1, unique_id, collectible)
        c3 == CollectiblesCount_put(c2, unwrap(new_count))
        c4 == deposit_event(c3, "CollectibleCreated", None, Some(owner), Some(unique_id), None)
    IN  Ok(c4)

mint(c, owner, unique_id, color) ==
    LET collectible ==
            [unique_id |-> unique_id, price |-> None, color |-> color, owner |-> owner]
    IN
    IF unique_id \in DOMAIN c.st.map THEN Err(c, "DuplicateCollectible")
    ELSE
    LET count == c.st.count
        new_count == checked_add(count, u64(1))
    IN
    IF new_count = None THEN Err(c, "BoundsOverflow")
    ELSE
    LET appended == OwnerOfCollectibles_try_append(c, owner, unique_id) IN
    IF appended = None THEN Err(c, "MaximumCollectiblesOwned")
    ELSE
    LET c1 == unwrap(appended)
        c2 == CollectibleMap_insert(c1, unique_id, collectible)
        c3 == CollectiblesCount_put(c2, unwrap(new_count))
        c4 == deposit_event(c3, "CollectibleCreated", None, Some(owner), Some(unique_id), None)
    IN  Ok(c4)

\* mutant of pre_transfer: the listing price is not reset
pre_transfer_keeps_price(c, collectible_id, to) ==
    IF collectible_id \notin DOMAIN c.st.map
    THEN [err |-> "Panic"]
    ELSE
    LET collectible == c.st.map[collectible_id]
        from == collectible.owner
    IN
    IF from = to THEN [err |-> "TransferToSelf"]
    ELSE
    LET from_collection0 == c.st.owned[from]
        to_collection0 == c.st.owned[to]
        index == position(from_collection0, collectible_id)
        from_collection ==
            IF is_some(index) THEN swap_remove(from_collection0, unwrap(index))
            ELSE from_collection0
        to_collection == try_push(to_collection0, collectible_id)
    IN
    IF to_collection = None THEN [err |-> "MaximumCollectiblesOwned"]
    ELSE [err |-> "Ok",
          collectible |-> [collectible EXCEPT !.owner = to],
          from |-> from,
          from_collection |-> from_collection,
          to_collection |-> unwrap(to_collection)]

\* mutant of pre_transfer: the recipient's collection is appended to without the bound test
pre_transfer_unchecked_push(c, collectible_id, to) ==
    IF collectible_id \notin DOMAIN c.st.map
    THEN [err |-> "Panic"]
    ELSE
    LET collectible == c.st.map[collectible_id]
        from == collectible.owner
    IN
    IF from = to THEN [err |-> "TransferToSelf"]
    ELSE
    LET from_collection0 == c.st.owned[from]
        to_collection0 == c.st.owned[to]
        index == position(from_collection0, collectible_id)
        from_collection ==
            IF is_some(index) THEN swap_remove(from_collection0, unwrap(index))
            ELSE from_collection0
        to_collection == Some(Append(to_collection0, collectible_id))
    IN
    IF to_collection = None THEN [err |-> "MaximumCollectiblesOwned"]
    ELSE [err |-> "Ok",
          collectible |-> [collectible EXCEPT !.owner = to, !.price = None],
          from |-> from,
          from_collection |-> from_collection,
          to_collection |-> unwrap(to_collection)]

\* mutant of pre_transfer: the recipient is not compared with the owner
pre_transfer_allows_self(c, collectible_id, to) ==
    IF collectible_id \notin DOMAIN c.st.map
    THEN [err |-> "Panic"]
    ELSE
    LET collectible == c.st.map[collectible_id]
        from == collectible.owner
    IN
    IF FALSE THEN [err |-> "TransferToSelf"]
    ELSE
    LET from_collection0 == c.st.owned[from]
        to_collection0 == c.st.owned[to]
        index == position(from_collection0, collectible_id)
        from_collection ==
            IF is_some(index) THEN swap_remove(from_collection0, unwrap(index))
            ELSE from_collection0
        to_collection == try_push(to_collection0, collectible_id)
    IN
    IF to_collection = None THEN [err |-> "MaximumCollectiblesOwned"]
    ELSE [err |-> "Ok",
          collectible |-> [collectible EXCEPT !.owner = to, !.price = None],
          from |-> from,
          from_collection |-> from_collection,
          to_collection |-> unwrap(to_collection)]

\* stages a transfer: reads storage, writes nothing
pre_transfer(c, collectible_id, to) ==
    IF collectible_id \notin DOMAIN c.st.map
    THEN [err |-> "Panic"]      \* .unwrap() of None
    ELSE
    LET collectible == c.st.map[collectible_id]
        from == collectible.owner
    IN
    IF from = to THEN [err |-> "TransferToSelf"]
    ELSE
    LET from_collection0 == c.st.owned[from]
        to_collection0 == c.st.owned[to]
        index == position(from_collection0, collectible_id)
        from_collection ==
            IF is_some(index) THEN swap_remove(from_collection0, unwrap(index))
            ELSE from_collection0
        to_collection == try_push(to_collection0, collectible_id)
    IN
    IF to_collection = None THEN [err |-> "MaximumCollectiblesOwned"]
    ELSE [err |-> "Ok",
          collectible |-> [collectible EXCEPT !.owner = to, !.price = None],
          from |-> from,
          from_collection |-> from_collection,
          to_collection |-> unwrap(to_collection)]

\* mutant of post_transfer: the sender's collection is not written back
post_transfer_keeps_from(c, collectible, from, to, from_collection, to_collection) ==
    LET c1 == CollectibleMap_insert(c, collectible.unique_id, collectible)
    IN  OwnerOfCollectibles_insert(c1, to, to_collection)

\* commits a staged transfer
post_transfer(c, collectible, from, to, from_collection, to_collection) ==
    LET c1 == CollectibleMap_insert(c, collectible.unique_id, collectible)
        c2 == OwnerOfCollectibles_insert(c1, from, from_collection)
    IN  OwnerOfCollectibles_insert(c2, to, to_collection)

\* mutant of do_transfer: the event names sender and recipient the wrong way round
do_transfer_swapped_event(c, collectible_id, to) ==
    LET staged == pre_transfer(c, collectible_id, to) IN
    IF staged.err # "Ok" THEN Err(c, staged.err)
    ELSE
    LET c1 == post_transfer(c, staged.collectible, staged.from, to,
                            staged.from_collection, staged.to_collection)
        c2 == deposit_event(c1, "TransferSucceeded", Some(to), Some(staged.from),
                            Some(collectible_id), None)
    IN  Ok(c2)

do_transfer(c, collectible_id, to) ==
    LET staged == pre_transfer(c, collectible_id, to) IN
    IF staged.err # "Ok" THEN Err(c, staged.err)
    ELSE
    LET c1 == post_transfer(c, staged.collectible, staged.from, to,
                            staged.from_collection, staged.to_collection)
        c2 == deposit_event(c1, "TransferSucceeded", Some(staged.from), Some(to),
                            Some(collectible_id), None)
    IN  Ok(c2)

\* mutant of do_buy: storage is committed before the currency transfer
do_buy_commits_first(c, collectible_id, buyer, price, currency_ok) ==
    LET staged == pre_transfer(c, collectible_id, buyer) IN
    IF staged.err # "Ok" THEN Err(c, staged.err)
    ELSE
    LET seller == staged.from
        c1 == post_transfer(c, staged.collectible, seller, buyer,
                            staged.from_collection, staged.to_collection)
        c2 == Currency_transfer(c1, buyer, seller, price, currency_ok)
    IN
    IF ~currency_ok THEN Err(c2, "CurrencyError")
    ELSE Ok(deposit_event(c2, "Sold", Some(seller), Some(buyer),
                          Some(collectible_id), Some(price)))

do_buy(c, collectible_id, buyer, price, currency_ok) ==
    LET staged == pre_transfer(c, collectible_id, buyer) IN
    IF staged.err # "Ok" THEN Err(c, staged.err)
    ELSE
    LET seller == staged.from
        c1 == Currency_transfer(c, buyer, seller, price, currency_ok)
    IN
    IF ~currency_ok THEN Err(c1, "CurrencyError")
    ELSE
    LET c2 == post_transfer(c1, staged.collectible, seller, buyer,
                            staged.from_collection, staged.to_collection)
        c3 == deposit_event(c2, "Sold", Some(seller), Some(buyer),
                            Some(collectible_id), Some(price))
    IN  Ok(c3)

\* ------------------------------------------------------- the dispatchables
create_collectible(c, origin, random, extrinsic_index, block_number) ==
    LET signed == ensure_signed(origin) IN
    IF signed = None THEN Err(c, "BadOrigin")
    ELSE
    LET sender == unwrap(signed)
        generated == gen_unique_id(random, extrinsic_index, block_number)
    IN  mint(c, sender, generated[1], generated[2])

\* mutant of destroy_collectible: the caller is not compared with the owner
destroy_collectible_by_anyone(c, origin, collectible_id, overflow_checks) ==
    LET signed == ensure_signed(origin) IN
    IF signed = None THEN Err(c, "BadOrigin")
    ELSE
    LET sender == unwrap(signed) IN
    IF collectible_id \notin DOMAIN c.st.map THEN Err(c, "NoCollectible")
    ELSE
    LET count == c.st.count
        count_minus_1 == u64_sub(count, u64(1), overflow_checks)
    IN
    IF count_minus_1 = None THEN Err(c, "Panic")
    ELSE
    LET c1 == CollectiblesCount_put(c, unwrap(count_minus_1))
        c2 == CollectibleMap_remove(c1, collectible_id)
        sender_collection0 == c2.st.owned[sender]
        index == position(sender_collection0, collectible_id)
        sender_collection ==
            IF is_some(index) THEN swap_remove(sender_collection0, unwrap(index))
            ELSE sender_collection0
        c3 == OwnerOfCollectibles_insert(c2, sender, sender_collection)
        c4 == deposit_event(c3, "CollectibleDestroyed", None, None, Some(collectible_id), None)
    IN  Ok(c4)

\* mutant of destroy_collectible: a listed collectible is not destroyed
destroy_collectible_unlisted_only(c, origin, collectible_id, overflow_checks) ==
    LET signed == ensure_signed(origin) IN
    IF signed = None THEN Err(c, "BadOrigin")
    ELSE
    LET sender == unwrap(signed) IN
    IF collectible_id \notin DOMAIN c.st.map THEN Err(c, "NoCollectible")
    ELSE
    LET collectible == c.st.map[collectible_id] IN
    IF collectible.owner # sender THEN Err(c, "NotOwner")
    ELSE IF is_some(collectible.price) THEN Err(c, "CollectibleNotForSale")
    ELSE
    LET count == c.st.count
        count_minus_1 == u64_sub(count, u64(1), overflow_checks)
    IN
    IF count_minus_1 = None THEN Err(c, "Panic")
    ELSE
    LET c1 == CollectiblesCount_put(c, unwrap(count_minus_1))
        c2 == CollectibleMap_remove(c1, collectible_id)
        sender_collection0 == c2.st.owned[sender]
        index == position(sender_collection0, collectible_id)
        sender_collection ==
            IF is_some(index) THEN swap_remove(sender_collection0, unwrap(index))
            ELSE sender_collection0
        c3 == OwnerOfCollectibles_insert(c2, sender, sender_collection)
        c4 == deposit_event(c3, "CollectibleDestroyed", None, None, Some(collectible_id), None)
    IN  Ok(c4)

\* mutant of destroy_collectible: the count is not written
destroy_collectible_keeps_count(c, origin, collectible_id, overflow_checks) ==
    LET signed == ensure_signed(origin) IN
    IF signed = None THEN Err(c, "BadOrigin")
    ELSE
    LET sender == unwrap(signed) IN
    IF collectible_id \notin DOMAIN c.st.map THEN Err(c, "NoCollectible")
    ELSE
    LET collectible == c.st.map[collectible_id] IN
    IF collectible.owner # sender THEN Err(c, "NotOwner")
    ELSE
    LET c2 == CollectibleMap_remove(c, collectible_id)
        sender_collection0 == c2.st.owned[sender]
        index == position(sender_collection0, collectible_id)
        sender_collection ==
            IF is_some(index) THEN swap_remove(sender_collection0, unwrap(index))
            ELSE sender_collection0
        c3 == OwnerOfCollectibles_insert(c2, sender, sender_collection)
        c4 == deposit_event(c3, "CollectibleDestroyed", None, None, Some(collectible_id), None)
    IN  Ok(c4)

\* overflow_checks is the build's setting: count - 1 at count = 0 panics with
\* it and wraps to u64::MAX without it
destroy_collectible(c, origin, collectible_id, overflow_checks) ==
    LET signed == ensure_signed(origin) IN
    IF signed = None THEN Err(c, "BadOrigin")
    ELSE
    LET sender == unwrap(signed) IN
    IF collectible_id \notin DOMAIN c.st.map THEN Err(c, "NoCollectible")
    ELSE
    LET collectible == c.st.map[collectible_id] IN
    IF collectible.owner # sender THEN Err(c, "NotOwner")
    ELSE
    LET count == c.st.count
        count_minus_1 == u64_sub(count, u64(1), overflow_checks)
    IN
    IF count_minus_1 = None THEN Err(c, "Panic")
    ELSE
    LET c1 == CollectiblesCount_put(c, unwrap(count_minus_1))
        c2 == CollectibleMap_remove(c1, collectible_id)
        sender_collection0 == c2.st.owned[sender]
        index == position(sender_collection0, collectible_id)
        sender_collection ==
            IF is_some(index) THEN swap_remove(sender_collection0, unwrap(index))
            ELSE sender_collection0
        c3 == OwnerOfCollectibles_insert(c2, sender, sender_collection)
        c4 == deposit_event(c3, "CollectibleDestroyed", None, None, Some(collectible_id), None)
    IN  Ok(c4)

\* mutant of transfer: the caller is not compared with the owner
transfer_by_anyone(c, origin, to, collectible_id) ==
    LET signed == ensure_signed(origin) IN
    IF signed = None THEN Err(c, "BadOrigin")
    ELSE
    IF collectible_id \notin DOMAIN c.st.map THEN Err(c, "NoCollectible")
    ELSE do_transfer(c, collectible_id, to)

transfer(c, origin, to, collectible_id) ==
    LET signed == ensure_signed(origin) IN
    IF signed = None THEN Err(c, "BadOrigin")
    ELSE
    LET from == unwrap(signed) IN
    IF collectible_id \notin DOMAIN c.st.map THEN Err(c, "NoCollectible")
    ELSE
    LET collectible == c.st.map[collectible_id] IN
    IF collectible.owner # from THEN Err(c, "NotOwner")
    ELSE do_transfer(c, collectible_id, to)

\* mutant of set_price: a missing collectible is reported with the wrong error
set_price_wrong_error(c, origin, collectible_id, new_price) ==
    LET signed == ensure_signed(origin) IN
    IF signed = None THEN Err(c, "BadOrigin")
    ELSE
    LET from == unwrap(signed) IN
    IF collectible_id \notin DOMAIN c.st.map THEN Err(c, "NotOwner")
    ELSE
    LET collectible == c.st.map[collectible_id] IN
    IF collectible.owner # from THEN Err(c, "NotOwner")
    ELSE
    LET c1 == CollectibleMap_insert(c, collectible_id,
                                    [collectible EXCEPT !.price = Some(new_price)])
        c2 == deposit_event(c1, "PriceSet", None, None, Some(collectible_id), Some(new_price))
    IN  Ok(c2)

set_price(c, origin, collectible_id, new_price) ==
    LET signed == ensure_signed(origin) IN
    IF signed = None THEN Err(c, "BadOrigin")
    ELSE
    LET from == unwrap(signed) IN
    IF collectible_id \notin DOMAIN c.st.map THEN Err(c, "NoCollectible")
    ELSE
    LET collectible == c.st.map[collectible_id] IN
    IF collectible.owner # from THEN Err(c, "NotOwner")
    ELSE
    LET c1 == CollectibleMap_insert(c, collectible_id,
                                    [collectible EXCEPT !.price = Some(new_price)])
        c2 == deposit_event(c1, "PriceSet", None, None, Some(collectible_id), Some(new_price))
    IN  Ok(c2)

\* mutant of remove_from_market: the record is removed instead of delisted
remove_from_market_removes_record(c, origin, collectible_id) ==
    LET signed == ensure_signed(origin) IN
    IF signed = None THEN Err(c, "BadOrigin")
    ELSE
    LET from == unwrap(signed) IN
    IF collectible_id \notin DOMAIN c.st.map THEN Err(c, "NoCollectible")
    ELSE
    LET collectible == c.st.map[collectible_id] IN
    IF collectible.owner # from THEN Err(c, "NotOwner")
    ELSE IF ~is_some(collectible.price) THEN Err(c, "CollectibleNotForSale")
    ELSE
    LET c1 == CollectibleMap_remove(c, collectible_id)
        c2 == deposit_event(c1, "NotLongerOnSale", None, None, Some(collectible_id), None)
    IN  Ok(c2)

remove_from_market(c, origin, collectible_id) ==
    LET signed == ensure_signed(origin) IN
    IF signed = None THEN Err(c, "BadOrigin")
    ELSE
    LET from == unwrap(signed) IN
    IF collectible_id \notin DOMAIN c.st.map THEN Err(c, "NoCollectible")
    ELSE
    LET collectible == c.st.map[collectible_id] IN
    IF collectible.owner # from THEN Err(c, "NotOwner")
    ELSE IF ~is_some(collectible.price) THEN Err(c, "CollectibleNotForSale")
    ELSE
    LET c1 == CollectibleMap_insert(c, collectible_id, [collectible EXCEPT !.price = None])
        c2 == deposit_event(c1, "NotLongerOnSale", None, None, Some(collectible_id), None)
    IN  Ok(c2)

\* mutant of buy: an offer equal to the listed price is refused
buy_strictly_more(c, origin, collectible_id, offered_price, currency_ok) ==
    LET signed == ensure_signed(origin) IN
    IF signed = None THEN Err(c, "BadOrigin")
    ELSE
    LET buyer == unwrap(signed) IN
    IF collectible_id \notin DOMAIN c.st.map THEN Err(c, "NoCollectible")
    ELSE
    LET collectible == c.st.map[collectible_id] IN
    IF ~is_some(collectible.price) THEN Err(c, "CollectibleNotForSale")
    ELSE IF ~(offered_price > unwrap(collectible.price)) THEN Err(c, "OfferedPriceTooLow")
    ELSE do_buy(c, collectible_id, buyer, offered_price, currency_ok)

buy(c, origin, collectible_id, offered_price, currency_ok) ==
    LET signed == ensure_signed(origin) IN
    IF signed = None THEN Err(c, "BadOrigin")
    ELSE
    LET buyer == unwrap(signed) IN
    IF collectible_id \notin DOMAIN c.st.map THEN Err(c, "NoCollectible")
    ELSE
    LET collectible == c.st.map[collectible_id] IN
    IF ~is_some(collectible.price) THEN Err(c, "CollectibleNotForSale")
    ELSE IF ~(offered_price >= unwrap(collectible.price)) THEN Err(c, "OfferedPriceTooLow")
    ELSE do_buy(c, collectible_id, buyer, offered_price, currency_ok)

\* ------------------------------------------------------------ the machine
Init ==
    /\ CollectibleMap = EmptyStorage.map
    /\ CollectiblesCount = EmptyStorage.count
    /\ OwnerOfCollectibles = EmptyStorage.owned
    /\ prev = EmptyStorage
    /\ last = [op |-> "genesis", err |-> "Ok"]
    /\ effects = <<>>

\* one dispatched call: its result becomes the storage; how it ended and what
\* it did are kept for the properties
Dispatch(op, result) ==
    /\ CollectibleMap' = result.st.map
    /\ CollectiblesCount' = result.st.count
    /\ OwnerOfCollectibles' = result.st.owned
    /\ prev' = St
    /\ last' = [op |-> op, err |-> result.err]
    /\ effects' = result.fx

CreateCollectible ==
    \E origin \in Origins, random \in Randoms,
       extrinsic_index \in ExtrinsicIndexes, block_number \in BlockNumbers :
        Dispatch("create_collectible",
                 create_collectible(Ctx(St), origin, random, extrinsic_index, block_number))

DestroyCollectible ==
    \E origin \in Origins, collectible_id \in UniqueIds, overflow_checks \in BOOLEAN :
        Dispatch("destroy_collectible",
                 destroy_collectible(Ctx(St), origin, collectible_id, overflow_checks))

Transfer ==
    \E origin \in Origins, to \in Accounts, collectible_id \in UniqueIds :
        Dispatch("transfer", transfer(Ctx(St), origin, to, collectible_id))

SetPrice ==
    \E origin \in Origins, collectible_id \in UniqueIds, new_price \in Balances :
        Dispatch("set_price", set_price(Ctx(St), origin, collectible_id, new_price))

RemoveFromMarket ==
    \E origin \in Origins, collectible_id \in UniqueIds :
        Dispatch("remove_from_market", remove_from_market(Ctx(St), origin, collectible_id))

Buy ==
    \E origin \in Origins, collectible_id \in UniqueIds,
       offered_price \in Balances, currency_ok \in BOOLEAN :
        Dispatch("buy", buy(Ctx(St), origin, collectible_id, offered_price, currency_ok))

\* do_transfer and do_buy are pub: code of the runtime outside the pallet can
\* call them without an origin and without the checks of transfer and buy.  A
\* call that panics (the unwrap of pre_transfer on an id that is not stored)
\* leaves the storage as it was.
DoTransfer ==
    \E collectible_id \in UniqueIds, to \in Accounts :
        Dispatch("do_transfer", do_transfer(Ctx(St), collectible_id, to))

DoBuy ==
    \E collectible_id \in UniqueIds, buyer \in Accounts,
       price \in Balances, currency_ok \in BOOLEAN :
        Dispatch("do_buy", do_buy(Ctx(St), collectible_id, buyer, price, currency_ok))

Next ==
    \/ CreateCollectible
    \/ DestroyCollectible
    \/ Transfer
    \/ SetPrice
    \/ RemoveFromMarket
    \/ Buy
    \/ DoTransfer
    \/ DoBuy

Spec == Init /\ [][Next]_vars

\* The registry close to the end of the counter.  No sequence of calls that a
\* check can run gets from zero to u64::MAX, so this specification starts
\* OverflowHeadroom below it: the storage is the pallet's seen through the
\* accounts and the ids of the model, the collectibles counted so far being
\* other accounts' with other ids.
InitOverflow ==
    /\ CollectibleMap = EmptyStorage.map
    /\ CollectiblesCount = unwrap(u64_sub(u64_MAX, u64(OverflowHeadroom), TRUE))
    /\ OwnerOfCollectibles = EmptyStorage.owned
    /\ prev = [EmptyStorage EXCEPT !.count = unwrap(u64_sub(u64_MAX, u64(OverflowHeadroom), TRUE))]
    /\ last = [op |-> "genesis", err |-> "Ok"]
    /\ effects = <<>>

SpecOverflow == InitOverflow /\ [][Next]_vars

\* the six dispatchable calls
Dispatchables ==
    {"create_collectible", "destroy_collectible", "transfer",
     "set_price", "remove_from_market", "buy"}

\* ------------------------------------------------- reading the effects
EventsOf(fx) == SelectSeq(fx, LAMBDA e : e.kind = "event")
PaymentsOf(fx) == SelectSeq(fx, LAMBDA e : e.kind = "pay")
WritesOf(fx) == SelectSeq(fx, LAMBDA e : e.kind = "write")
Kinds(fx) == [i \in 1..Len(fx) |-> fx[i].kind]

Succeeded(op) == last.op = op /\ last.err = "Ok"
Failed == last.err # "Ok"
\* the collectible the last successful call was about: every event names it
LastId == unwrap(EventsOf(effects)[1].id)

\* --------------------------------------------------------------- claims

\* C1: in a successful buy of an item listed at p with offered_price >= p the
\* amount settled from the buyer to the seller is exactly the listed price p;
\* afterwards the buyer owns the item and its price is None.
C1_BuySettlesListedPrice ==
    Succeeded("buy") =>
        LET sold == EventsOf(effects)[1]
            pays == PaymentsOf(effects)
            listed == prev.map[LastId]
        IN  /\ Len(pays) = 1
            /\ pays[1].from = sold.to
            /\ pays[1].to = Some(listed.owner)
            /\ pays[1].amount = listed.price
            /\ CollectibleMap[LastId].owner = unwrap(sold.to)
            /\ CollectibleMap[LastId].price = None

\* C2: failure atomicity.  Whenever one of the six operations returns an
\* error, store, count and every account's collection are as they were before
\* the call, and the call wrote nothing to storage and deposited no event: no
\* write precedes the last fallible check.
C2_FailureAtomicity ==
    Failed =>
        /\ St = prev
        /\ WritesOf(effects) = <<>>
        /\ EventsOf(effects) = <<>>

\* a mint refused at its last fallible check, the bounded append
C2_Witness ==
    /\ last.op = "create_collectible"
    /\ last.err = "MaximumCollectiblesOwned"
    /\ Cardinality(DOMAIN prev.map) >= MaximumOwned

\* n + 1 and n - 1 on u64, away from the ends of the range
Plus1(n) == u64_sum(n, u64(1)).value
Minus1(n) == u64_difference(n, u64(1)).value

\* C3: count equals the number of entries of the store in every reachable
\* state; it grows by one exactly on a successful mint, shrinks by one exactly
\* on a successful destroy, and is unchanged by every other call, successful
\* or failed.
C3_CountInvariant ==
    /\ CollectiblesCount = u64(Cardinality(DOMAIN CollectibleMap))
    /\ prev.count = u64(Cardinality(DOMAIN prev.map))
    /\ Succeeded("create_collectible") => CollectiblesCount = Plus1(prev.count)
    /\ Succeeded("destroy_collectible") => CollectiblesCount = Minus1(prev.count)
    /\ ~(Succeeded("create_collectible") \/ Succeeded("destroy_collectible"))
            => CollectiblesCount = prev.count

\* a destroy that leaves other collectibles behind
C3_Witness ==
    /\ Succeeded("destroy_collectible")
    /\ CollectiblesCount # u64(0)
    /\ prev.count = Plus1(CollectiblesCount)
    /\ CollectiblesCount = Minus1(prev.count)

\* how often the collection of account a holds id
Occurrences(owned, a, id) == Cardinality({i \in 1..Len(owned[a]) : owned[a][i] = id})

\* C4: every id of the store occurs exactly once in the collection of the
\* account recorded as its owner and in no other collection, and every id of
\* a collection is a key of the store whose record names that account as
\* owner; so the collection lengths sum to count.
C4_OwnershipIndexConsistent ==
    /\ \A id \in DOMAIN CollectibleMap : \A a \in Accounts :
            Occurrences(OwnerOfCollectibles, a, id) =
                IF CollectibleMap[id].owner = a THEN 1 ELSE 0
    /\ \A a \in Accounts : \A i \in 1..Len(OwnerOfCollectibles[a]) :
            /\ OwnerOfCollectibles[a][i] \in DOMAIN CollectibleMap
            /\ CollectibleMap[OwnerOfCollectibles[a][i]].owner = a
    /\ \A id \in DOMAIN CollectibleMap :
            /\ CollectibleMap[id].unique_id = id
            /\ CollectibleMap[id].owner \in Accounts

\* a transfer out of a collection that keeps another item, into one that
\* already held one
C4_Witness ==
    /\ Succeeded("transfer")
    /\ \E a, b \in Accounts :
            /\ a # b
            /\ Len(OwnerOfCollectibles[a]) >= 1
            /\ Len(OwnerOfCollectibles[b]) >= 2
            /\ Len(prev.owned[a]) >= 2

\* C5: in every reachable state every account's collection holds at most
\* MaximumOwned ids.
C5_BoundInvariant ==
    \A a \in Accounts : Len(OwnerOfCollectibles[a]) <= MaximumOwned

\* an account is at the bound and a further item was refused
C5_Witness ==
    /\ \E a \in Accounts : Len(OwnerOfCollectibles[a]) = MaximumOwned
    /\ last.err = "MaximumCollectiblesOwned"

\* the registry checks of a buy, as the claim lists them: signed caller,
\* existence, listed, offered price, not-self, recipient bound
RegistryChecksPass(st, origin, id, offered_price) ==
    /\ origin \in Accounts
    /\ id \in DOMAIN st.map
    /\ is_some(st.map[id].price)
    /\ offered_price >= unwrap(st.map[id].price)
    /\ st.map[id].owner # origin
    /\ Len(st.owned[origin]) < MaximumOwned

\* C6: in buy the currency transfer is the last fallible step.  It is invoked
\* exactly when every registry check has passed and before any storage write:
\* (a) a buy failing on a registry check invokes no currency transfer, (b) a
\* buy whose currency transfer fails leaves storage unchanged and deposits no
\* event, (c) a successful buy makes one currency transfer from buyer to
\* seller, then the three storage writes, then one Sold event.
C6_CurrencyTransferLastFallibleStep ==
    \A origin \in Origins, id \in UniqueIds, offered_price \in Balances, currency_ok \in BOOLEAN :
        LET r == buy(Ctx(St), origin, id, offered_price, currency_ok)
            pays == PaymentsOf(r.fx)
            pass == RegistryChecksPass(St, origin, id, offered_price)
        IN  /\ Len(pays) = (IF pass THEN 1 ELSE 0)
            /\ ~pass => /\ r.err \notin {"Ok", "CurrencyError"}
                        /\ r.fx = <<>>
                        /\ r.st = St
            /\ (pass /\ ~currency_ok) =>
                        /\ r.err = "CurrencyError"
                        /\ r.st = St
                        /\ Kinds(r.fx) = <<"pay">>
            /\ (pass /\ currency_ok) =>
                        /\ r.err = "Ok"
                        /\ Kinds(r.fx) = <<"pay", "write", "write", "write", "event">>
                        /\ r.fx[1].name = "Ok"
                        /\ r.fx[1].from = Some(origin)
                        /\ r.fx[1].to = Some(St.map[id].owner)
                        /\ r.fx[5].name = "Sold"
                        /\ r.st # St

\* a buy that passed every registry check and whose currency transfer failed
C6_Witness ==
    /\ last.op = "buy"
    /\ last.err = "CurrencyError"
    /\ Len(PaymentsOf(effects)) = 1

\* C7: right after a successful transfer or buy of id the record's owner is
\* the recipient and its price is None, whatever the price was; so a further
\* buy of id by any account fails CollectibleNotForSale until a price is set.
C7_TransferAndBuyResetListing ==
    /\ \A origin \in Origins, to \in Accounts, id \in UniqueIds :
        LET r == transfer(Ctx(St), origin, to, id) IN
        r.err = "Ok" =>
            /\ r.st.map[id].owner = to
            /\ r.st.map[id].price = None
            /\ \A again \in Accounts, offered \in Balances, ok \in BOOLEAN :
                    buy(Ctx(r.st), again, id, offered, ok).err = "CollectibleNotForSale"
    /\ \A origin \in Origins, id \in UniqueIds, offered_price \in Balances :
        LET r == buy(Ctx(St), origin, id, offered_price, TRUE) IN
        r.err = "Ok" =>
            /\ r.st.map[id].owner = origin
            /\ r.st.map[id].price = None
            /\ \A again \in Accounts, offered \in Balances, ok \in BOOLEAN :
                    buy(Ctx(r.st), again, id, offered, ok).err = "CollectibleNotForSale"

\* a listed item was transferred
C7_Witness ==
    /\ Succeeded("transfer")
    /\ is_some(prev.map[LastId].price)
    /\ CollectibleMap[LastId].price = None

\* C8: when account a owns exactly MaximumOwned items, a mint by a, a transfer
\* to a and a buy by a all fail and leave storage unchanged; the error is
\* MaximumCollectiblesOwned whenever the checks placed before the bound test
\* pass.
C8_BoundExhaustion ==
    \A a \in Accounts :
        Len(OwnerOfCollectibles[a]) = MaximumOwned =>
            /\ \A random \in Randoms, ei \in ExtrinsicIndexes, bn \in BlockNumbers :
                LET r == create_collectible(Ctx(St), a, random, ei, bn)
                    id == gen_unique_id(random, ei, bn)[1]
                IN  /\ r.err # "Ok" /\ r.st = St /\ r.fx = <<>>
                    /\ (id \notin DOMAIN CollectibleMap /\ CollectiblesCount # u64_MAX)
                            => r.err = "MaximumCollectiblesOwned"
            /\ \A origin \in Origins, id \in UniqueIds :
                LET r == transfer(Ctx(St), origin, a, id) IN
                    /\ r.err # "Ok" /\ r.st = St /\ r.fx = <<>>
                    /\ (id \in DOMAIN CollectibleMap /\ CollectibleMap[id].owner = origin
                            /\ origin # a)
                            => r.err = "MaximumCollectiblesOwned"
            /\ \A id \in UniqueIds, offered_price \in Balances, ok \in BOOLEAN :
                LET r == buy(Ctx(St), a, id, offered_price, ok) IN
                    /\ r.err # "Ok" /\ r.st = St /\ r.fx = <<>>
                    /\ (/\ id \in DOMAIN CollectibleMap
                        /\ is_some(CollectibleMap[id].price)
                        /\ offered_price >= unwrap(CollectibleMap[id].price)
                        /\ CollectibleMap[id].owner # a)
                            => r.err = "MaximumCollectiblesOwned"

\* a buy by a full account was refused on the bound
C8_Witness ==
    /\ last.op = "buy"
    /\ last.err = "MaximumCollectiblesOwned"
    /\ \E a \in Accounts : Len(OwnerOfCollectibles[a]) = MaximumOwned

\* C9: a mint whose generated id is a key of the store fails
\* DuplicateCollectible and changes nothing; a successful mint leaves every
\* existing record as it was; and a mint that repeats the entropy and context
\* of a successful one fails while that item exists.
C9_DuplicateRejected ==
    \A origin \in Accounts, random \in Randoms, ei \in ExtrinsicIndexes, bn \in BlockNumbers :
        LET r == create_collectible(Ctx(St), origin, random, ei, bn)
            id == gen_unique_id(random, ei, bn)[1]
        IN  /\ id \in DOMAIN CollectibleMap =>
                /\ r.err = "DuplicateCollectible"
                /\ r.st = St
                /\ r.fx = <<>>
            /\ r.err = "Ok" =>
                /\ id \notin DOMAIN CollectibleMap
                /\ \A k \in DOMAIN CollectibleMap : r.st.map[k] = CollectibleMap[k]
                /\ \A again \in Accounts :
                    create_collectible(Ctx(r.st), again, random, ei, bn).err
                        = "DuplicateCollectible"

\* a mint was refused as a duplicate of a listed item
C9_Witness ==
    /\ last.op = "create_collectible"
    /\ last.err = "DuplicateCollectible"
    /\ CollectiblesCount # u64(0)
    /\ \A id \in DOMAIN CollectibleMap : is_some(CollectibleMap[id].price)

\* C10: a transfer whose recipient is the current owner fails TransferToSelf
\* and changes nothing; so does a buy by the owner of their own listed item
\* with an adequate offer, and no currency transfer is invoked.
C10_SelfTransferRejected ==
    \A id \in DOMAIN CollectibleMap :
        LET owner == CollectibleMap[id].owner
            t == transfer(Ctx(St), owner, owner, id)
        IN  /\ t.err = "TransferToSelf" /\ t.st = St /\ t.fx = <<>>
            /\ \A offered_price \in Balances, ok \in BOOLEAN :
                (is_some(CollectibleMap[id].price)
                        /\ offered_price >= unwrap(CollectibleMap[id].price)) =>
                    LET b == buy(Ctx(St), owner, id, offered_price, ok) IN
                    b.err = "TransferToSelf" /\ b.st = St /\ b.fx = <<>>

\* an owner tried to buy their own listed item
C10_Witness ==
    /\ last.op = "buy"
    /\ last.err = "TransferToSelf"
    /\ effects = <<>>

\* the result r is the error e with nothing done
Refused(r, e) == r.err = e /\ r.st = St /\ r.fx = <<>>

\* C11: destroy_collectible, transfer, set_price, remove_from_market and buy,
\* called by any account with an id that is not a key of the store, fail
\* NoCollectible and leave storage unchanged.
C11_UnknownId ==
    \A a \in Accounts, id \in UniqueIds \ DOMAIN CollectibleMap :
        /\ \A overflow_checks \in BOOLEAN :
                Refused(destroy_collectible(Ctx(St), a, id, overflow_checks), "NoCollectible")
        /\ \A to \in Accounts : Refused(transfer(Ctx(St), a, to, id), "NoCollectible")
        /\ \A p \in Balances : Refused(set_price(Ctx(St), a, id, p), "NoCollectible")
        /\ Refused(remove_from_market(Ctx(St), a, id), "NoCollectible")
        /\ \A p \in Balances, ok \in BOOLEAN :
                Refused(buy(Ctx(St), a, id, p, ok), "NoCollectible")

\* a price was set on an id that is not in a store holding other items
C11_Witness ==
    /\ last.op = "set_price"
    /\ last.err = "NoCollectible"
    /\ CollectiblesCount # u64(0)

\* C12: remove_from_market by the owner of an item whose price is None fails
\* CollectibleNotForSale; buy of an item whose price is None fails
\* CollectibleNotForSale; buy of an item listed at p fails OfferedPriceTooLow
\* when offered_price < p and passes the price check when offered_price = p.
\* Storage is unchanged in every failing case.
C12_MarketplacePreconditions ==
    \A id \in DOMAIN CollectibleMap :
        LET item == CollectibleMap[id] IN
        /\ item.price = None =>
            /\ Refused(remove_from_market(Ctx(St), item.owner, id), "CollectibleNotForSale")
            /\ \A a \in Accounts, p \in Balances, ok \in BOOLEAN :
                    Refused(buy(Ctx(St), a, id, p, ok), "CollectibleNotForSale")
        /\ is_some(item.price) =>
            \A a \in Accounts, p \in Balances, ok \in BOOLEAN :
                LET r == buy(Ctx(St), a, id, p, ok) IN
                /\ p < unwrap(item.price) => Refused(r, "OfferedPriceTooLow")
                /\ p = unwrap(item.price) =>
                        /\ r.err \notin {"OfferedPriceTooLow", "CollectibleNotForSale"}
                        /\ RegistryChecksPass(St, a, id, p) =>
                                r.err = (IF ok THEN "Ok" ELSE "CurrencyError")

\* an offer below a listed price of at least 1 was refused
C12_Witness ==
    /\ last.op = "buy"
    /\ last.err = "OfferedPriceTooLow"
    /\ \E id \in DOMAIN CollectibleMap :
            is_some(CollectibleMap[id].price) /\ unwrap(CollectibleMap[id].price) >= 1

\* C13: every successful operation deposits exactly one event, of the type of
\* the operation and with its fields (create: CollectibleCreated{id, owner =
\* caller}; destroy: CollectibleDestroyed{id}; transfer: TransferSucceeded
\* {from = previous owner, to, id}; set_price: PriceSet{id, price};
\* remove_from_market: NotLongerOnSale{id}; buy: Sold{seller = previous owner,
\* buyer = caller, id, price = amount settled}); a failed operation deposits
\* none.
Deposits(r, event) ==
    EventsOf(r.fx) = (IF r.err = "Ok" THEN <<event>> ELSE <<>>)

C13_OutcomeRecords ==
    \A origin \in Origins, id \in UniqueIds :
        /\ \A random \in Randoms, ei \in ExtrinsicIndexes, bn \in BlockNumbers :
            Deposits(create_collectible(Ctx(St), origin, random, ei, bn),
                     Fx("event", "CollectibleCreated", None, Some(origin),
                        Some(gen_unique_id(random, ei, bn)[1]), None))
        /\ \A overflow_checks \in BOOLEAN :
            Deposits(destroy_collectible(Ctx(St), origin, id, overflow_checks),
                     Fx("event", "CollectibleDestroyed", None, None, Some(id), None))
        /\ \A to \in Accounts :
            LET r == transfer(Ctx(St), origin, to, id) IN
            Deposits(r, Fx("event", "TransferSucceeded",
                           IF r.err = "Ok" THEN Some(CollectibleMap[id].owner) ELSE None,
                           Some(to), Some(id), None))
        /\ \A p \in Balances :
            Deposits(set_price(Ctx(St), origin, id, p),
                     Fx("event", "PriceSet", None, None, Some(id), Some(p)))
        /\ Deposits(remove_from_market(Ctx(St), origin, id),
                    Fx("event", "NotLongerOnSale", None, None, Some(id), None))
        /\ \A p \in Balances, ok \in BOOLEAN :
            LET r == buy(Ctx(St), origin, id, p, ok)
                pays == PaymentsOf(r.fx)
            IN  Deposits(r, Fx("event", "Sold",
                               IF r.err = "Ok" THEN Some(CollectibleMap[id].owner) ELSE None,
                               Some(origin), Some(id),
                               IF r.err = "Ok" THEN pays[1].amount ELSE None))

\* a transfer deposited its one event, naming the previous and the new owner
C13_Witness ==
    /\ Succeeded("transfer")
    /\ Len(EventsOf(effects)) = 1
    /\ EventsOf(effects)[1].from = Some(prev.map[LastId].owner)
    /\ EventsOf(effects)[1].to = Some(CollectibleMap[LastId].owner)

\* C14: transfer, set_price, remove_from_market and destroy_collectible on an
\* existing id, called by an account that is not its owner, fail NotOwner and
\* leave storage unchanged; so after a successful transfer or buy of id the
\* previous owner's destroy, transfer, set_price and remove_from_market fail
\* NotOwner.
NotOwnerRefused(st, a, id) ==
    LET c == Ctx(st)
        refused(r) == r.err = "NotOwner" /\ r.st = st /\ r.fx = <<>>
    IN  /\ \A overflow_checks \in BOOLEAN :
                refused(destroy_collectible(c, a, id, overflow_checks))
        /\ \A to \in Accounts : refused(transfer(c, a, to, id))
        /\ \A p \in Balances : refused(set_price(c, a, id, p))
        /\ refused(remove_from_market(c, a, id))

C14_OwnerOnly ==
    /\ \A id \in DOMAIN CollectibleMap : \A a \in Accounts \ {CollectibleMap[id].owner} :
            NotOwnerRefused(St, a, id)
    /\ \A id \in DOMAIN CollectibleMap : \A to \in Accounts :
            LET owner == CollectibleMap[id].owner
                r == transfer(Ctx(St), owner, to, id)
            IN  r.err = "Ok" => NotOwnerRefused(r.st, owner, id)
    /\ \A id \in DOMAIN CollectibleMap : \A buyer \in Accounts, p \in Balances :
            LET owner == CollectibleMap[id].owner
                r == buy(Ctx(St), buyer, id, p, TRUE)
            IN  r.err = "Ok" => NotOwnerRefused(r.st, owner, id)

\* someone who is not the owner tried to destroy a collectible
C14_Witness ==
    /\ last.op = "destroy_collectible"
    /\ last.err = "NotOwner"
    /\ CollectiblesCount # u64(0)

\* the elements of a collection
Elements(v) == {v[i] : i \in 1..Len(v)}

\* C15: a successful create_collectible by caller c with generated (id,
\* attribute) adds exactly the record {id, owner = c, price = None,
\* attribute}, appends id at the end of c's collection, increments count by
\* one and changes nothing else; the attribute is Red when the first byte of
\* the hash is even and Yellow when it is odd, so no record of a reachable
\* state carries Blue or Green.
C15_MintPostcondition ==
    /\ \A origin \in Origins, random \in Randoms, ei \in ExtrinsicIndexes, bn \in BlockNumbers :
        LET r == create_collectible(Ctx(St), origin, random, ei, bn)
            id == blake2_128(<<random, IF ei = None THEN 0 ELSE ei[1], bn>>)
            attribute == IF first_byte(id) % 2 = 0 THEN "Red" ELSE "Yellow"
        IN  r.err = "Ok" =>
            /\ id \notin DOMAIN CollectibleMap
            /\ DOMAIN r.st.map = DOMAIN CollectibleMap \cup {id}
            /\ r.st.map[id] = [unique_id |-> id, owner |-> origin, price |-> None,
                               color |-> attribute]
            /\ \A k \in DOMAIN CollectibleMap : r.st.map[k] = CollectibleMap[k]
            /\ r.st.owned = [OwnerOfCollectibles EXCEPT ![origin] = Append(@, id)]
            /\ r.st.count = Plus1(CollectiblesCount)
            /\ r.st.count # u64(0)
    /\ \A id \in DOMAIN CollectibleMap :
            /\ CollectibleMap[id].color \in {"Red", "Yellow"}
            /\ CollectibleMap[id].color = "Red" <=> first_byte(id) % 2 = 0

\* a Yellow collectible was minted onto the end of a collection that held one
C15_Witness ==
    /\ Succeeded("create_collectible")
    /\ CollectibleMap[LastId].color = "Yellow"
    /\ Len(prev.owned[CollectibleMap[LastId].owner]) >= 1
    /\ OwnerOfCollectibles[CollectibleMap[LastId].owner]
            = Append(prev.owned[CollectibleMap[LastId].owner], LastId)

\* C16: destroy_collectible(caller, id) by the owner succeeds whether the
\* price is None or Some; it removes id from the store and from the owner's
\* collection and decrements count by one, leaving every other record and
\* every other account's collection unchanged; afterwards a buy of id fails
\* NoCollectible.
C16_DestroyPostcondition ==
    \A id \in DOMAIN CollectibleMap, overflow_checks \in BOOLEAN :
        LET owner == CollectibleMap[id].owner
            r == destroy_collectible(Ctx(St), owner, id, overflow_checks)
        IN  /\ r.err = "Ok"
            /\ DOMAIN r.st.map = DOMAIN CollectibleMap \ {id}
            /\ \A k \in DOMAIN r.st.map : r.st.map[k] = CollectibleMap[k]
            /\ r.st.count = Minus1(CollectiblesCount)
            /\ r.st.count # u64_MAX
            /\ Elements(r.st.owned[owner]) = Elements(OwnerOfCollectibles[owner]) \ {id}
            /\ Len(r.st.owned[owner]) = Len(OwnerOfCollectibles[owner]) - 1
            /\ \A a \in Accounts \ {owner} : r.st.owned[a] = OwnerOfCollectibles[a]
            /\ \A a \in Accounts, p \in Balances, ok \in BOOLEAN :
                    buy(Ctx(r.st), a, id, p, ok).err = "NoCollectible"

\* a listed collectible was destroyed, out of a collection holding another
C16_Witness ==
    /\ Succeeded("destroy_collectible")
    /\ is_some(prev.map[LastId].price)
    /\ LastId \notin DOMAIN CollectibleMap
    /\ Len(prev.owned[prev.map[LastId].owner]) >= 2

\* what a successful transfer or buy of id to recipient `to` may change:
\* owner and price of the record, the previous owner's collection (it loses
\* id) and the recipient's (it gains id at the end)
MovesOnly(r, id, to) ==
    LET old == CollectibleMap[id] IN
    /\ r.st.count = CollectiblesCount
    /\ DOMAIN r.st.map = DOMAIN CollectibleMap
    /\ \A k \in DOMAIN CollectibleMap \ {id} : r.st.map[k] = CollectibleMap[k]
    /\ r.st.map[id] = [old EXCEPT !.owner = r.st.map[id].owner, !.price = r.st.map[id].price]
    /\ \A a \in Accounts \ {old.owner, to} : r.st.owned[a] = OwnerOfCollectibles[a]
    /\ Elements(r.st.owned[old.owner]) = Elements(OwnerOfCollectibles[old.owner]) \ {id}
    /\ r.st.owned[to] = Append(OwnerOfCollectibles[to], id)

\* C17: a successful set_price or remove_from_market on id changes only the
\* price of record id (to Some(new_price), respectively None); a successful
\* transfer or buy changes only owner and price of record id and the
\* collections of the previous owner and of the recipient.  Count, the keys of
\* the store, every other record and every other collection are unchanged.
C17_Frame ==
    \A origin \in Origins, id \in UniqueIds :
        /\ \A p \in Balances :
            LET r == set_price(Ctx(St), origin, id, p) IN
            r.err = "Ok" => r.st = [St EXCEPT !.map[id].price = Some(p)]
        /\ LET r == remove_from_market(Ctx(St), origin, id) IN
            r.err = "Ok" => r.st = [St EXCEPT !.map[id].price = None]
        /\ \A to \in Accounts :
            LET r == transfer(Ctx(St), origin, to, id) IN
            r.err = "Ok" => MovesOnly(r, id, to)
        /\ \A p \in Balances :
            LET r == buy(Ctx(St), origin, id, p, TRUE) IN
            r.err = "Ok" => MovesOnly(r, id, origin)

\* an item was bought while a third account, neither seller nor buyer, held a
\* collectible of its own: its collection and its record are as before
C17_Witness ==
    /\ Succeeded("buy")
    /\ \E bystander \in Accounts \ {prev.map[LastId].owner, CollectibleMap[LastId].owner} :
            /\ Len(prev.owned[bystander]) >= 1
            /\ OwnerOfCollectibles[bystander] = prev.owned[bystander]
            /\ \A k \in Elements(prev.owned[bystander]) : CollectibleMap[k] = prev.map[k]

\* C18: a mint attempted with a fresh id when count is the maximum of its
\* unsigned type (2^64 - 1) fails BoundsOverflow; count does not wrap to 0,
\* store and collections are unchanged; the overflow check comes before the
\* per-account bound test, so this is the error also for a caller whose
\* collection is full.  (Checked under SpecOverflow.)
C18_CountOverflow ==
    /\ Succeeded("create_collectible") =>
            CollectiblesCount # u64(0) /\ prev.count # u64_MAX
    /\ CollectiblesCount = u64_MAX =>
        \A a \in Accounts, random \in Randoms, ei \in ExtrinsicIndexes, bn \in BlockNumbers :
            gen_unique_id(random, ei, bn)[1] \notin DOMAIN CollectibleMap =>
                Refused(create_collectible(Ctx(St), a, random, ei, bn), "BoundsOverflow")

\* a mint was refused at the maximal count, one account being at its bound
C18_Witness ==
    /\ last.op = "create_collectible"
    /\ last.err = "BoundsOverflow"
    /\ CollectiblesCount = u64_MAX
    /\ \E a \in Accounts : Len(OwnerOfCollectibles[a]) = MaximumOwned
    /\ \E a \in Accounts : Len(OwnerOfCollectibles[a]) < MaximumOwned

\* record k of the store has another owner after the call / is gone after it
OwnerChanged(r, k) == k \in DOMAIN r.st.map /\ r.st.map[k].owner # CollectibleMap[k].owner
Gone(r, k) == k \notin DOMAIN r.st.map

\* C19: the owner of an existing collectible changes only in a successful
\* transfer called by its current owner or in a successful buy of it while
\* its price is Some(p) with offered_price >= p; a collectible leaves the
\* store only in a destroy called by its current owner.  So an item whose
\* price is None is never acquired or destroyed by another account.
C19_NoInvoluntaryLoss ==
    \A k \in DOMAIN CollectibleMap : \A origin \in Origins, id \in UniqueIds :
        LET item == CollectibleMap[k] IN
        /\ \A random \in Randoms, ei \in ExtrinsicIndexes, bn \in BlockNumbers :
            LET r == create_collectible(Ctx(St), origin, random, ei, bn) IN
            ~OwnerChanged(r, k) /\ ~Gone(r, k)
        /\ \A overflow_checks \in BOOLEAN :
            LET r == destroy_collectible(Ctx(St), origin, id, overflow_checks) IN
            /\ ~OwnerChanged(r, k)
            /\ Gone(r, k) => (k = id /\ origin = item.owner /\ r.err = "Ok")
        /\ \A to \in Accounts :
            LET r == transfer(Ctx(St), origin, to, id) IN
            /\ ~Gone(r, k)
            /\ OwnerChanged(r, k) => (k = id /\ origin = item.owner /\ r.err = "Ok")
        /\ \A p \in Balances :
            LET r == set_price(Ctx(St), origin, id, p) IN
            ~OwnerChanged(r, k) /\ ~Gone(r, k)
        /\ LET r == remove_from_market(Ctx(St), origin, id) IN
            ~OwnerChanged(r, k) /\ ~Gone(r, k)
        /\ \A p \in Balances, ok \in BOOLEAN :
            LET r == buy(Ctx(St), origin, id, p, ok) IN
            /\ ~Gone(r, k)
            /\ OwnerChanged(r, k) =>
                    /\ k = id /\ r.err = "Ok"
                    /\ is_some(item.price) /\ p >= unwrap(item.price)
                    /\ r.st.map[k].owner = origin

\* a listed collectible changed owner by a purchase
C19_Witness ==
    /\ Succeeded("buy")
    /\ is_some(prev.map[LastId].price)
    /\ CollectibleMap[LastId].owner # prev.map[LastId].owner
    /\ Cardinality(DOMAIN CollectibleMap) >= 2

\* the results a dispatchable returns: Ok, the pallet's errors, and the errors
\* of ensure_signed and of Currency::transfer
TypedResults ==
    {"Ok", "DuplicateCollectible", "MaximumCollectiblesOwned", "BoundsOverflow",
     "NoCollectible", "NotOwner", "TransferToSelf", "CollectibleNotForSale",
     "OfferedPriceTooLow", "BadOrigin", "CurrencyError"}

\* C20: in every reachable state every dispatchable ends with success or a
\* typed error, never by a panic, whatever the build: the lookup unwrapped in pre_transfer finds the
\* record, the price unwrapped in buy is Some, count - 1 in destroy does not
\* underflow (count >= 1 whenever an id exists) and the scan for id in the
\* owner's collection in transfer, buy and destroy finds it.
C20_NoAbnormalAbort ==
    /\ last.op \in Dispatchables => last.err \in TypedResults
    /\ \A id \in DOMAIN CollectibleMap :
            /\ CollectiblesCount # u64(0)
            /\ is_some(position(OwnerOfCollectibles[CollectibleMap[id].owner], id))
    /\ \A origin \in Origins, id \in UniqueIds :
        /\ \A random \in Randoms, ei \in ExtrinsicIndexes, bn \in BlockNumbers :
            create_collectible(Ctx(St), origin, random, ei, bn).err \in TypedResults
        /\ \A overflow_checks \in BOOLEAN :
            LET r == destroy_collectible(Ctx(St), origin, id, overflow_checks) IN
            r.err \in TypedResults /\ (r.err = "Ok" => r.st.count # u64_MAX)
        /\ \A to \in Accounts : transfer(Ctx(St), origin, to, id).err \in TypedResults
        /\ \A p \in Balances : set_price(Ctx(St), origin, id, p).err \in TypedResults
        /\ remove_from_market(Ctx(St), origin, id).err \in TypedResults
        /\ \A p \in Balances, ok \in BOOLEAN :
            LET r == buy(Ctx(St), origin, id, p, ok) IN
            /\ r.err \in TypedResults
            /\ PaymentsOf(r.fx) # <<>> => is_some(CollectibleMap[id].price)

\* the last collectible was destroyed: count - 1 was taken at count = 1
C20_Witness ==
    /\ Succeeded("destroy_collectible")
    /\ prev.count = u64(1)
    /\ CollectiblesCount = u64(0)
    /\ CollectibleMap = <<>>

====
